---- MODULE Spec2Model ----
(***************************************************************************)
(* The session event loop of rust-meet (src/main.rs): one loop that paints *)
(* the status screen when tui_dirty is set and then services exactly one   *)
(* of: the 50 ms tick, a key event, a swarm event, a download status.      *)
(* The audio device callbacks (src/audio.rs) and the spawned file-save     *)
(* tasks run beside it and are separate actions.                           *)
(*                                                                         *)
(* Strings are sequences of one-character strings so that slicing and      *)
(* formatting are computed as the code computes them.  JSON payloads are   *)
(* records carrying the fields of the serialized struct; deserialization   *)
(* checks the fields the target type requires.                             *)
(***************************************************************************)
EXTENDS Naturals, Sequences, FiniteSets, TLC

VARIABLES
    pc,                  \* "paint" (main.rs:104), "select" (main.rs:120), "done"
    outcome,             \* "running", or how main ended: "ok", "render_error",
                         \* "publish_error" (an Err returned by `?`), "panic"
    app_status,          \* AppStatus
    tui_dirty,
    is_audio_muted,
    is_video_muted,
    camera,              \* Option<Camera>: TRUE when initialize_camera succeeded
    remote_frames,       \* Tui.remote_frames: peer_id -> <<frame, audio muted, video muted>>
    listen_addresses,    \* Tui.listen_addresses
    messages,            \* Tui.messages
    downloads,           \* Tui.downloads
    input,               \* Tui.input
    input_mode,          \* Tui.input_mode
    app_audio_receiver,  \* captured chunks: input callback -> loop
    p2p_audio_receiver,  \* inbound chunks: loop -> output callback
    connected,           \* peers with an open connection (swarm state)
    key_open,            \* the input reader thread still holds key_sender
    save_tasks,          \* spawned save tasks that have not reported yet
    args,                \* Args: "Create" or "Join"
    out_buffer,          \* the output device buffer as the last playback callback left it
    image,               \* the grey image handed to to_ascii: rows of u8 intensities
    ascii_art,           \* the String to_ascii returned for it (empty before the call)
    feed,                \* the kind of input the environment delivers in this run
    last,                \* history: the event serviced by the last step
    sent,                \* history: the publish calls made by the last step
    stale,               \* history: a view-model field changed since the last paint
    typed,               \* history: characters typed since `i` (poisoned by Backspace)
    last_video,          \* history: per peer the last consumed video envelope, and
                         \* whether it replaced an earlier one
    paints,              \* history: status-screen paints so far (kept until InCall)
    dirty_sets,          \* history: dirty-setting mutations so far (kept until InCall)
    established          \* history: the peers a ConnectionEstablished was serviced for

vars == <<pc, outcome, app_status, tui_dirty, is_audio_muted, is_video_muted, camera,
          remote_frames, listen_addresses, messages, downloads, input, input_mode,
          app_audio_receiver, p2p_audio_receiver, connected, key_open,
          save_tasks, args, image, ascii_art, out_buffer, feed, last, sent, stale, typed,
          last_video,
          paints, dirty_sets, established>>

\* The fields the renderer shows (Tui::draw, draw_waiting_for_peers, draw_joining).
view == <<app_status, is_audio_muted, is_video_muted, remote_frames, listen_addresses,
          messages, downloads, input, input_mode>>

----------------------------------------------------------------------------
(* Bounds of the model *)

MaxMessages == 1     \* chat lines
MaxDownloads == 2    \* download entries
MaxAddrs == 1        \* listen addresses
MaxQueue == 2        \* chunks in each audio queue
MaxBuffer == 2       \* samples in the buffer of one playback callback
MaxCount == 2        \* dirty-setting mutations counted while not InCall

----------------------------------------------------------------------------
(* Values *)

WaitingForPeers == "WaitingForPeers"
Joining == "Joining"
InCall == "InCall"

VIDEO_TOPIC == "video"
AUDIO_TOPIC == "audio"
CHAT_TOPIC == "chat"
CONTROL_TOPIC == "control"
FILE_TOPIC == "file"
Topics == {VIDEO_TOPIC, AUDIO_TOPIC, CHAT_TOPIC, CONTROL_TOPIC, FILE_TOPIC}

\* swarm.local_peer_id().to_string()
local_peer_id_str == <<"1", "2", "D", "L", "o", "c", "a", "l">>
\* peer_id strings that arrive embedded in envelopes: a long one and "P"
RemoteLong == <<"1", "2", "D", "R", "e", "m", "o", "t", "e">>
RemoteShort == <<"P">>
RemotePeerIds == {RemoteLong, RemoteShort}
EnvelopePeerIds == {local_peer_id_str} \cup RemotePeerIds

\* video::create_no_camera_frame and the frames a camera or a peer produces
NoCameraFrame == "NoCamera"
CameraFrames == {"F1"}

Chars == {"q", "m"}
\* The texts the user types, character by character
TypedTexts == {<<"m", "q">>, <<"q">>}
ChatTexts == {<<"h", "i">>}
FileNames == {<<"a">>}
Chunks == {<<1>>, <<2, 3>>}
ListenAddrs == {"/ip4/127.0.0.1/tcp/4242"}

\* A run's environment delivers, besides ticks, connection events and q, the
\* inputs of one of these groups; it keeps the reachable states a sum over
\* the groups instead of their product.
Feeds == {"typing", "chat", "video", "audio", "playback", "file", "control"}

----------------------------------------------------------------------------
(* Strings and JSON *)

\* format!("You: {}", message_text)
FormatYou(text) == <<"Y", "o", "u", ":", " ">> \o text

\* format!("{}: {}", peer_id_short, message)
FormatChat(short, text) == short \o <<":", " ">> \o text

\* format!("You sent a file: {}", file_name)
FormatSentFile(name) ==
    <<"Y", "o", "u", " ", "s", "e", "n", "t", " ", "a", " ", "f", "i", "l", "e", ":", " ">> \o name

\* chat_message.peer_id.len() - 6 on usize: the subtraction overflows below 6
\* (a panic in a debug build; in a release build it wraps and the slice start
\* lies past the end, a panic as well).
ShortIdPanics(peer_id) == Len(peer_id) < 6

\* &chat_message.peer_id[chat_message.peer_id.len() - 6..]
ShortId(peer_id) == SubSeq(peer_id, Len(peer_id) - 5, Len(peer_id))

\* serde_json::to_string of a struct: a JSON object with the struct's fields;
\* of the unit variant ControlMessage::EndCall: the JSON string "EndCall".
JsonObject(fields) == [kind |-> "object", fields |-> fields]
JsonString(s) == [kind |-> "string", value |-> s]
JsonInvalid == [kind |-> "invalid"]

FrameDataFields == {"peer_id", "frame", "is_audio_muted", "is_video_muted"}
AudioDataFields == {"peer_id", "data"}
ChatMessageFields == {"peer_id", "message"}
FileMessageFields == {"peer_id", "file_name", "content"}

\* serde_json::from_slice::<T>(&message.data).is_ok() for a struct T: the bytes
\* are a JSON object holding every field of T (unknown fields are ignored).
FromSliceOk(required, json) ==
    /\ json.kind = "object"
    /\ required \subseteq DOMAIN json.fields

\* Mutant: the comparison with EndCall never succeeds.
IsEndCallNever(json) == FALSE

\* Mutant: any JSON string is taken for EndCall.
IsEndCallAnyString(json) == json.kind = "string"

\* serde_json::from_slice::<ControlMessage>(..) == Ok(EndCall)
IsEndCall(json) == json.kind = "string" /\ json.value = "EndCall"

FrameData(p, f, am, vm) ==
    JsonObject([peer_id |-> p, frame |-> f, is_audio_muted |-> am, is_video_muted |-> vm])
AudioData(p, d) == JsonObject([peer_id |-> p, data |-> d])
ChatMessage(p, m) == JsonObject([peer_id |-> p, message |-> m])
FileMessage(p, n, c) == JsonObject([peer_id |-> p, file_name |-> n, content |-> c])
EndCallJson == JsonString("EndCall")

\* One gossipsub publish call and its result.
Published(topic, json, ok) == [topic |-> topic, data |-> json, ok |-> ok]

----------------------------------------------------------------------------
(* The state after construction: main.rs:48-87 *)

\* main.rs:57-70
InitialStatus(a) == IF a = "Create" THEN WaitingForPeers ELSE Joining

Init ==
    /\ feed \in Feeds
    /\ pc = "paint"
    /\ outcome = "running"
    /\ args \in {"Create", "Join"}
    /\ app_status = InitialStatus(args)
    /\ tui_dirty = TRUE
    /\ is_audio_muted = FALSE
    /\ is_video_muted = FALSE
    /\ camera \in (IF feed = "video" THEN BOOLEAN ELSE {TRUE})
    /\ remote_frames = <<>>
    /\ listen_addresses = <<>>
    /\ messages = <<>>
    /\ downloads = <<>>
    /\ input = <<>>
    /\ input_mode = FALSE
    /\ app_audio_receiver = <<>>
    /\ p2p_audio_receiver = <<>>
    /\ connected = {}
    /\ key_open = TRUE
    /\ save_tasks = {}
    /\ last = [kind |-> "none"]
    /\ sent = <<>>
    /\ stale = TRUE
    /\ typed = <<>>
    /\ last_video = <<>>
    /\ paints = 0
    /\ dirty_sets = 0
    /\ established = {}
    /\ out_buffer = <<>>
    /\ image = <<>>
    /\ ascii_art = <<>>

----------------------------------------------------------------------------
(* How a select! branch ends *)

\* The branch falls out of select! and the loop goes round; setdirty is
\* whether the branch executed tui_dirty = true.  MaxCount bounds the
\* mutations the environment causes outside a call; the status of a save
\* that was started is always taken.
Continue(ev, pubs, setdirty) ==
    /\ setdirty /\ app_status # InCall /\ ev.kind # "download_status" => dirty_sets < MaxCount
    /\ pc' = "paint"
    /\ outcome' = outcome
    /\ tui_dirty' = (setdirty \/ tui_dirty)
    /\ dirty_sets' = IF app_status' = InCall THEN 0
                     ELSE IF setdirty THEN dirty_sets + 1 ELSE dirty_sets
    /\ stale' = (stale \/ view' # view)
    /\ last' = ev
    /\ sent' = pubs
    /\ paints' = IF app_status' = InCall THEN 0 ELSE paints
    /\ established' = established \cup connected'
    /\ UNCHANGED <<args, image, ascii_art, out_buffer, feed>>

\* The branch leaves the loop: break (result "ok"), a `?` that returns the
\* error (result "render_error" or "publish_error"), or a panic.
Terminate(ev, pubs, result) ==
    /\ pc' = "done"
    /\ outcome' = result
    /\ stale' = (stale \/ view' # view)
    /\ last' = ev
    /\ sent' = pubs
    /\ established' = established \cup connected'
    /\ UNCHANGED <<tui_dirty, dirty_sets, paints, args, image, ascii_art, out_buffer, feed>>

----------------------------------------------------------------------------
(* The paint block at the top of the loop: main.rs:104-118 *)

\* Mutant: the status screen is painted on every iteration, dirty or not.
PaintBlockAlways ==
    /\ pc = "paint"
    /\ \E drawok \in BOOLEAN :
         IF app_status = InCall
         THEN /\ tui_dirty' = FALSE
              /\ pc' = "select"
              /\ UNCHANGED <<outcome, stale, paints>>
         ELSE IF drawok
         THEN /\ tui_dirty' = FALSE
              /\ pc' = "select"
              /\ stale' = FALSE
              /\ paints' = paints + 1
              /\ UNCHANGED outcome
         ELSE /\ pc' = "done"
              /\ outcome' = "render_error"
              /\ UNCHANGED <<tui_dirty, stale, paints>>
    /\ UNCHANGED <<app_status, is_audio_muted, is_video_muted, camera, remote_frames,
                   listen_addresses, messages, downloads, input, input_mode,
                   app_audio_receiver, p2p_audio_receiver, connected, key_open,
                   save_tasks, args, image, ascii_art, out_buffer, feed, last, sent, typed, last_video,
                   dirty_sets, established>>

PaintBlock ==
    /\ pc = "paint"
    /\ IF tui_dirty
       THEN \E drawok \in BOOLEAN :
              IF app_status = InCall
              THEN \* InCall is handled by the tick interval
                   /\ tui_dirty' = FALSE
                   /\ pc' = "select"
                   /\ UNCHANGED <<outcome, stale, paints>>
              ELSE IF drawok
              THEN \* draw_waiting_for_peers / draw_joining
                   /\ tui_dirty' = FALSE
                   /\ pc' = "select"
                   /\ stale' = FALSE
                   /\ paints' = paints + 1
                   /\ UNCHANGED outcome
              ELSE \* the draw call failed and `?` returns the error
                   /\ pc' = "done"
                   /\ outcome' = "render_error"
                   /\ UNCHANGED <<tui_dirty, stale, paints>>
       ELSE /\ pc' = "select"
            /\ UNCHANGED <<outcome, tui_dirty, stale, paints>>
    /\ UNCHANGED <<app_status, is_audio_muted, is_video_muted, camera, remote_frames,
                   listen_addresses, messages, downloads, input, input_mode,
                   app_audio_receiver, p2p_audio_receiver, connected, key_open,
                   save_tasks, args, image, ascii_art, out_buffer, feed, last, sent, typed, last_video,
                   dirty_sets, established>>

----------------------------------------------------------------------------
(* The tick branch: main.rs:121-172 *)

CaptureResults == CameraFrames \cup {"Err"}

\* Mutant: the frame is captured whether or not video is muted.
SelectFrameIgnoresMute(muted, has_camera, captured) ==
    IF has_camera
    THEN IF captured = "Err" THEN NoCameraFrame ELSE captured
    ELSE NoCameraFrame

\* main.rs:124-133: the frame a tick publishes and draws
SelectFrame(muted, has_camera, captured) ==
    IF ~muted
    THEN IF has_camera
         THEN IF captured = "Err" THEN NoCameraFrame ELSE captured
         ELSE NoCameraFrame
    ELSE NoCameraFrame

\* Mutant: the mute flag is not consulted.
TakesAudioIgnoresMute(muted, queue) == queue # <<>>

\* main.rs:152-153: whether the tick takes a captured chunk
TakesAudio(muted, queue) == ~muted /\ queue # <<>>

\* Mutant: the tick empties the capture queue and publishes its oldest chunk.
AfterTryRecvDrains(queue) == <<>>

\* main.rs:153: the capture queue after one successful try_recv
AfterTryRecv(queue) == Tail(queue)

\* Mutant: a video-muted peer publishes no video envelope.
TickPublishesUnlessMuted(frame, okv, oka) ==
    (IF is_video_muted
     THEN <<>>
     ELSE <<Published(VIDEO_TOPIC,
                FrameData(local_peer_id_str, frame, is_audio_muted, is_video_muted), okv)>>)
    \o (IF TakesAudio(is_audio_muted, app_audio_receiver)
        THEN <<Published(AUDIO_TOPIC,
                   AudioData(local_peer_id_str, Head(app_audio_receiver)), oka)>>
        ELSE <<>>)

\* main.rs:136-167: the publish calls of an InCall tick, in order
TickPublishes(frame, okv, oka) ==
    <<Published(VIDEO_TOPIC,
          FrameData(local_peer_id_str, frame, is_audio_muted, is_video_muted), okv)>>
    \o (IF TakesAudio(is_audio_muted, app_audio_receiver)
        THEN <<Published(AUDIO_TOPIC,
                   AudioData(local_peer_id_str, Head(app_audio_receiver)), oka)>>
        ELSE <<>>)

\* Mutant: the tick is also active while the joiner is dialing.
TickActiveWhenJoining(status) == status # WaitingForPeers

\* main.rs:122: if app_status == AppStatus::InCall
TickActive(status) == status = InCall

Tick ==
    /\ pc = "select"
    /\ UNCHANGED <<app_status, is_audio_muted, is_video_muted, camera, remote_frames,
                   listen_addresses, messages, downloads, input, input_mode,
                   p2p_audio_receiver, connected, key_open, save_tasks, typed, last_video>>
    /\ IF TickActive(app_status)
       THEN \E captured \in CaptureResults, okv \in BOOLEAN, oka \in BOOLEAN, drawok \in BOOLEAN :
              LET frame == SelectFrame(is_video_muted, camera, captured)
                  takes == TakesAudio(is_audio_muted, app_audio_receiver)
              IN  /\ takes \/ oka
                  /\ app_audio_receiver' = IF takes THEN AfterTryRecv(app_audio_receiver)
                                                    ELSE app_audio_receiver
                  /\ last' = [kind |-> "tick", frame |-> frame,
                              draw |-> IF drawok THEN "ok" ELSE "err"]
                  /\ sent' = TickPublishes(frame, okv, oka)
                  /\ IF drawok
                     THEN \* tui.draw(&frame, is_audio_muted, is_video_muted)
                          /\ pc' = "paint"
                          /\ stale' = FALSE
                          /\ UNCHANGED outcome
                     ELSE /\ pc' = "done"
                          /\ outcome' = "render_error"
                          /\ UNCHANGED stale
                  /\ UNCHANGED <<tui_dirty, dirty_sets, paints, args, image, ascii_art,
                                 out_buffer, feed, established>>
       ELSE /\ UNCHANGED app_audio_receiver
            /\ Continue([kind |-> "tick", frame |-> "-", draw |-> "-"], <<>>, FALSE)

----------------------------------------------------------------------------
(* The audio device callbacks: audio.rs:55-60 and audio.rs:77-89 *)

\* The input callback sends the captured samples.
Capture ==
    /\ outcome = "running"
    /\ Len(app_audio_receiver) < MaxQueue
    /\ \E chunk \in Chunks : app_audio_receiver' = Append(app_audio_receiver, chunk)
    /\ UNCHANGED <<pc, outcome, app_status, tui_dirty, is_audio_muted, is_video_muted, camera,
                   remote_frames, listen_addresses, messages, downloads, input, input_mode,
                   p2p_audio_receiver, connected, key_open, save_tasks, args, image, ascii_art,
                   out_buffer, feed, last, sent, stale, typed, last_video, paints, dirty_sets,
                   established>>

\* T::from_sample(0.0)
Silence == 0
\* A sample the host left in the buffer it hands to the callback
Leftover == 9

\* The buffer `data` as the callback receives it: cpal does not say what it
\* holds; a host hands over a zeroed buffer or one it reuses.
BufferOnEntry(n) == {[i \in 1..n |-> Silence], [i \in 1..n |-> Leftover]}

Min(a, b) == IF a <= b THEN a ELSE b

\* audio.rs:79-82: the first min(data.len(), audio_data.len()) samples are written
WriteChunk(data, audio_data) ==
    LET len == Min(Len(data), Len(audio_data))
    IN  [i \in 1..Len(data) |-> IF i <= len THEN audio_data[i] ELSE data[i]]

\* audio.rs:85-87
WriteSilence(data) == [i \in 1..Len(data) |-> Silence]

\* The output callback (audio.rs:77-89) on a buffer of n samples
Playback ==
    /\ outcome = "running"
    /\ \E n \in 1..MaxBuffer : \E data \in BufferOnEntry(n) :
         IF p2p_audio_receiver # <<>>
         THEN /\ out_buffer' = WriteChunk(data, Head(p2p_audio_receiver))
              /\ p2p_audio_receiver' = Tail(p2p_audio_receiver)
         ELSE /\ out_buffer' = WriteSilence(data)
              /\ UNCHANGED p2p_audio_receiver
    /\ UNCHANGED <<pc, outcome, app_status, tui_dirty, is_audio_muted, is_video_muted, camera,
                   remote_frames, listen_addresses, messages, downloads, input, input_mode,
                   app_audio_receiver, connected, key_open, save_tasks, args, image, ascii_art, feed, last,
                   sent, stale, typed, last_video, paints, dirty_sets, established>>

----------------------------------------------------------------------------
(* The key branch: main.rs:173-276 *)

KeyEvent(code, c) == [kind |-> "key", code |-> code, c |-> c, input_mode |-> input_mode]

NotTyping == [clean |-> FALSE, text |-> <<>>]

\* p2p::end_call: one publish of EndCall on the control topic; the publish
\* error is returned to the caller (p2p.rs:137-145).
EndCallPublish(ok) == Published(CONTROL_TOPIC, EndCallJson, ok)

\* Mutant: q calls end_call in every call state.
QuitEndsCallAlways(status) == TRUE

\* main.rs:215: whether q calls end_call
QuitEndsCall(status) == status # WaitingForPeers

\* main.rs:216-218: `p2p::end_call(&mut swarm)?; ... break`
QuitResult(ok) == IF ok THEN "ok" ELSE "publish_error"

IsPrefix(s, t) == Len(s) <= Len(t) /\ SubSeq(t, 1, Len(s)) = s

\* Mutant: the character is inserted at the front of the buffer.
KeyCharPrepends(c) ==
    /\ pc = "select" /\ key_open /\ input_mode
    /\ \E text \in TypedTexts : IsPrefix(Append(input, c), text)
    /\ input' = <<c>> \o input
    /\ typed' = IF typed.clean THEN [typed EXCEPT !.text = Append(@, c)] ELSE typed
    /\ UNCHANGED <<app_status, is_audio_muted, is_video_muted, camera, remote_frames,
                   listen_addresses, messages, downloads, input_mode, app_audio_receiver,
                   p2p_audio_receiver, connected, key_open, save_tasks, last_video>>
    /\ Continue(KeyEvent("Char", c), <<>>, TRUE)

\* main.rs:179-182
KeyChar(c) ==
    /\ pc = "select" /\ key_open /\ input_mode
    /\ \E text \in TypedTexts : IsPrefix(Append(input, c), text)
    /\ input' = Append(input, c)
    /\ typed' = IF typed.clean THEN [typed EXCEPT !.text = Append(@, c)] ELSE typed
    /\ UNCHANGED <<app_status, is_audio_muted, is_video_muted, camera, remote_frames,
                   listen_addresses, messages, downloads, input_mode, app_audio_receiver,
                   p2p_audio_receiver, connected, key_open, save_tasks, last_video>>
    /\ Continue(KeyEvent("Char", c), <<>>, TRUE)

\* Mutant: Backspace empties the buffer.
KeyBackspaceClears ==
    /\ pc = "select" /\ key_open /\ input_mode
    /\ input' = <<>>
    /\ typed' = NotTyping
    /\ UNCHANGED <<app_status, is_audio_muted, is_video_muted, camera, remote_frames,
                   listen_addresses, messages, downloads, input_mode, app_audio_receiver,
                   p2p_audio_receiver, connected, key_open, save_tasks, last_video>>
    /\ Continue(KeyEvent("Backspace", "-"), <<>>, TRUE)

\* main.rs:183-186
KeyBackspace ==
    /\ pc = "select" /\ key_open /\ input_mode
    /\ input' = IF input = <<>> THEN <<>> ELSE SubSeq(input, 1, Len(input) - 1)
    /\ typed' = NotTyping
    /\ UNCHANGED <<app_status, is_audio_muted, is_video_muted, camera, remote_frames,
                   listen_addresses, messages, downloads, input_mode, app_audio_receiver,
                   p2p_audio_receiver, connected, key_open, save_tasks, last_video>>
    /\ Continue(KeyEvent("Backspace", "-"), <<>>, TRUE)

\* Mutant: Enter copies the buffer instead of draining it.
KeyEnterKeepsInput ==
    /\ pc = "select" /\ key_open /\ input_mode
    /\ Len(messages) < MaxMessages
    /\ \E ok \in BOOLEAN :
         LET message_text == input
         IN  /\ input' = input
             /\ messages' = Append(messages, FormatYou(message_text))
             /\ input_mode' = FALSE
             /\ typed' = NotTyping
             /\ UNCHANGED <<app_status, is_audio_muted, is_video_muted, camera, remote_frames,
                            listen_addresses, downloads, app_audio_receiver,
                            p2p_audio_receiver, connected, key_open, save_tasks, last_video>>
             /\ Continue(KeyEvent("Enter", "-"),
                         <<Published(CHAT_TOPIC, ChatMessage(local_peer_id_str, message_text), ok)>>,
                         TRUE)

\* main.rs:187-204
KeyEnter ==
    /\ pc = "select" /\ key_open /\ input_mode
    /\ Len(messages) < MaxMessages
    /\ \E ok \in BOOLEAN :
         LET message_text == input
         IN  /\ input' = <<>>
             /\ messages' = Append(messages, FormatYou(message_text))
             /\ input_mode' = FALSE
             /\ typed' = NotTyping
             /\ UNCHANGED <<app_status, is_audio_muted, is_video_muted, camera, remote_frames,
                            listen_addresses, downloads, app_audio_receiver,
                            p2p_audio_receiver, connected, key_open, save_tasks, last_video>>
             /\ Continue(KeyEvent("Enter", "-"),
                         <<Published(CHAT_TOPIC, ChatMessage(local_peer_id_str, message_text), ok)>>,
                         TRUE)

\* main.rs:205-209
KeyEsc ==
    /\ pc = "select" /\ key_open /\ input_mode
    /\ input' = <<>>
    /\ input_mode' = FALSE
    /\ typed' = NotTyping
    /\ UNCHANGED <<app_status, is_audio_muted, is_video_muted, camera, remote_frames,
                   listen_addresses, messages, downloads, app_audio_receiver,
                   p2p_audio_receiver, connected, key_open, save_tasks, last_video>>
    /\ Continue(KeyEvent("Esc", "-"), <<>>, TRUE)

\* main.rs:214-219
KeyQ ==
    /\ pc = "select" /\ key_open /\ ~input_mode
    /\ UNCHANGED <<app_status, is_audio_muted, is_video_muted, camera, remote_frames,
                   listen_addresses, messages, downloads, input, input_mode,
                   app_audio_receiver, p2p_audio_receiver, connected, key_open,
                   save_tasks, typed, last_video>>
    /\ IF QuitEndsCall(app_status)
       THEN \E ok \in BOOLEAN :
              Terminate(KeyEvent("Char", "q"), <<EndCallPublish(ok)>>, QuitResult(ok))
       ELSE Terminate(KeyEvent("Char", "q"), <<>>, "ok")

\* main.rs:220-223
KeyI ==
    /\ pc = "select" /\ key_open /\ ~input_mode
    /\ input_mode' = TRUE
    /\ typed' = [clean |-> input = <<>>, text |-> <<>>]
    /\ UNCHANGED <<app_status, is_audio_muted, is_video_muted, camera, remote_frames,
                   listen_addresses, messages, downloads, input, app_audio_receiver,
                   p2p_audio_receiver, connected, key_open, save_tasks, last_video>>
    /\ Continue(KeyEvent("Char", "i"), <<>>, TRUE)

\* Mutant: m toggles the flag and forgets tui_dirty = true.
KeyMNoDirty ==
    /\ pc = "select" /\ key_open /\ ~input_mode
    /\ is_audio_muted' = ~is_audio_muted
    /\ UNCHANGED <<app_status, is_video_muted, camera, remote_frames,
                   listen_addresses, messages, downloads, input, input_mode,
                   app_audio_receiver, p2p_audio_receiver, connected, key_open,
                   save_tasks, typed, last_video>>
    /\ Continue(KeyEvent("Char", "m"), <<>>, FALSE)

\* main.rs:224-227
KeyM ==
    /\ pc = "select" /\ key_open /\ ~input_mode
    /\ is_audio_muted' = ~is_audio_muted
    /\ UNCHANGED <<app_status, is_video_muted, camera, remote_frames,
                   listen_addresses, messages, downloads, input, input_mode,
                   app_audio_receiver, p2p_audio_receiver, connected, key_open,
                   save_tasks, typed, last_video>>
    /\ Continue(KeyEvent("Char", "m"), <<>>, TRUE)

\* main.rs:228-231
KeyV ==
    /\ pc = "select" /\ key_open /\ ~input_mode
    /\ is_video_muted' = ~is_video_muted
    /\ UNCHANGED <<app_status, is_audio_muted, camera, remote_frames,
                   listen_addresses, messages, downloads, input, input_mode,
                   app_audio_receiver, p2p_audio_receiver, connected, key_open,
                   save_tasks, typed, last_video>>
    /\ Continue(KeyEvent("Char", "v"), <<>>, TRUE)

FileContents == {<<104, 105>>}
\* What the dialog and the read give: no file picked, a read error, or the file.
PickResults == {[picked |-> "cancel"], [picked |-> "read_err"]}
                 \cup [picked : {"file"}, file_name : FileNames, content : FileContents]

\* Mutant: the line is shown whether or not the publish succeeded.
ShowsSentFileAlways(ok) == TRUE

\* main.rs:249-263: the Ok arm of the match on the publish result
ShowsSentFile(ok) == ok

\* main.rs:232-268
KeyF ==
    /\ pc = "select" /\ key_open /\ ~input_mode
    /\ \E pick \in PickResults, ok \in BOOLEAN :
         /\ UNCHANGED <<app_status, is_audio_muted, is_video_muted, camera, remote_frames,
                        listen_addresses, downloads, input, input_mode,
                        app_audio_receiver, p2p_audio_receiver, connected, key_open,
                        save_tasks, typed, last_video>>
         /\ IF pick.picked = "file"
            THEN LET pub == Published(FILE_TOPIC,
                                FileMessage(local_peer_id_str, pick.file_name, pick.content), ok)
                 IN  IF ShowsSentFile(ok)
                     THEN /\ Len(messages) < MaxMessages
                          /\ messages' = Append(messages, FormatSentFile(pick.file_name))
                          /\ Continue(KeyEvent("Char", "f"), <<pub>>, TRUE)
                     ELSE /\ UNCHANGED messages
                          /\ Continue(KeyEvent("Char", "f"), <<pub>>, FALSE)
            ELSE /\ ok
                 /\ UNCHANGED messages
                 /\ Continue(KeyEvent("Char", "f"), <<>>, FALSE)

\* main.rs:210 and main.rs:269: a pressed key no arm matches
OtherKeys == {"Tab"}
OtherNormalChars == {"h"}

KeyOther ==
    /\ pc = "select" /\ key_open
    /\ \E k \in [code : OtherKeys, c : {"-"}]
                  \cup (IF input_mode THEN {}
                        ELSE [code : {"Char"}, c : OtherNormalChars]
                               \cup [code : {"Backspace", "Enter", "Esc"}, c : {"-"}]) :
         /\ UNCHANGED view
         /\ UNCHANGED <<camera, app_audio_receiver, p2p_audio_receiver, connected, key_open,
                        save_tasks, typed, last_video>>
         /\ Continue(KeyEvent(k.code, k.c), <<>>, FALSE)

\* main.rs:174-175, 273: an event that is no key press (a release, the mouse, a resize)
KeyNotPress ==
    /\ pc = "select" /\ key_open
    /\ UNCHANGED view
    /\ UNCHANGED <<camera, app_audio_receiver, p2p_audio_receiver, connected, key_open,
                   save_tasks, typed, last_video>>
    /\ Continue([kind |-> "not_press"], <<>>, FALSE)

\* main.rs:91-99: event::read fails and the reader thread ends, dropping key_sender
ReaderStops ==
    /\ outcome = "running"
    /\ key_open
    /\ key_open' = FALSE
    /\ UNCHANGED <<pc, outcome, app_status, tui_dirty, is_audio_muted, is_video_muted, camera,
                   remote_frames, listen_addresses, messages, downloads, input, input_mode,
                   app_audio_receiver, p2p_audio_receiver, connected, save_tasks, args, image, ascii_art, out_buffer, feed,
                   last, sent, stale, typed, last_video, paints, dirty_sets, established>>

\* Mutant: the None of the closed channel is ignored like an event that is
\* no key press.
KeyClosedGoesOn ==
    /\ pc = "select" /\ ~key_open
    /\ UNCHANGED view
    /\ UNCHANGED <<camera, app_audio_receiver, p2p_audio_receiver, connected, key_open,
                   save_tasks, typed, last_video>>
    /\ Continue([kind |-> "key_closed"], <<>>, FALSE)

\* main.rs:273-275: recv() gives None
KeyClosed ==
    /\ pc = "select" /\ ~key_open
    /\ UNCHANGED view
    /\ UNCHANGED <<camera, app_audio_receiver, p2p_audio_receiver, connected, key_open,
                   save_tasks, typed, last_video>>
    /\ Terminate([kind |-> "key_closed"], <<>>, "ok")

Key ==
    \/ feed = "typing" /\ \E c \in Chars : KeyChar(c)
    \/ feed = "typing" /\ KeyBackspace
    \/ feed \in {"typing", "chat"} /\ KeyEnter
    \/ feed \in {"typing", "chat"} /\ KeyEsc
    \/ KeyQ
    \/ feed \in {"typing", "chat"} /\ KeyI
    \/ feed \in {"video", "audio"} /\ KeyM
    \/ feed = "video" /\ KeyV
    \/ feed = "file" /\ KeyF
    \/ feed = "control" /\ KeyOther
    \/ feed = "control" /\ KeyNotPress
    \/ KeyClosed

----------------------------------------------------------------------------
(* The swarm branch: main.rs:277-400 *)

\* What arrives on the subscribed topics: every envelope on its own topic,
\* and on each topic one envelope of another type, the control string, a
\* string that names no ControlMessage and bytes that are no JSON.
VideoVariants == {<<"F1", FALSE, FALSE>>, <<"F2", TRUE, FALSE>>, <<"F2", FALSE, TRUE>>}
VideoEnvelopes == {FrameData(p, v[1], v[2], v[3]) : p \in EnvelopePeerIds, v \in VideoVariants}
AudioEnvelopes == {AudioData(p, d) : p \in EnvelopePeerIds, d \in Chunks}
ChatEnvelopes == {ChatMessage(p, m) : p \in EnvelopePeerIds, m \in ChatTexts}
FileEnvelopes == {FileMessage(p, n, c) : p \in EnvelopePeerIds, n \in FileNames, c \in FileContents}
ForeignPayloads ==
    {ChatMessage(RemoteLong, <<"h", "i">>), FrameData(RemoteLong, "F1", FALSE, FALSE),
     JsonString("Mute"), JsonInvalid}

\* `message`: its topic, its data, and message.source, the peer that published it
MessageEvent(topic, json, source) ==
    [kind |-> "Message", topic |-> topic, json |-> json, source |-> source]

\* Mutant: entry().or_insert(), which keeps a peer's first frame.
UpdateFrameKeepsFirst(frames, fd) ==
    [p \in DOMAIN frames \cup {fd.peer_id} |->
        IF p \in DOMAIN frames
        THEN frames[p]
        ELSE <<fd.frame, fd.is_audio_muted, fd.is_video_muted>>]

\* Tui::update_frame (tui.rs:65-74): HashMap::insert
UpdateFrame(frames, fd) ==
    [p \in DOMAIN frames \cup {fd.peer_id} |->
        IF p = fd.peer_id
        THEN <<fd.frame, fd.is_audio_muted, fd.is_video_muted>>
        ELSE frames[p]]

\* Mutant: the own-envelope test is missing.
NotOwnAlways(peer_id) == TRUE

\* main.rs:302, 311, 319, 334: the envelope is not the local peer's own
NotOwn(peer_id) == peer_id # local_peer_id_str

\* Mutant: the address is stored as the transport reported it.
WithP2pMissing(address) == <<address>>

\* address.with(Protocol::P2p(local_peer_id)) (main.rs:394)
WithP2p(address) == <<address, <<"p2p", local_peer_id_str>>>>

Downloading == <<"Downloading">>
Failed == <<"Failed">>
Completed(path) == <<"Completed", path>>
\* downloads_path.join(&file_message.file_name) (main.rs:350-358)
SavePath(file_name) == <<"downloads", file_name>>

\* Mutant: only a waiting creator enters the call; a joiner stays Joining.
StatusOnConnectionFromWaiting(status) ==
    IF status = WaitingForPeers THEN InCall ELSE status

\* main.rs:280: app_status = AppStatus::InCall
StatusOnConnection(status) == InCall

\* main.rs:279-282
ConnectionEstablished(peer) ==
    /\ pc = "select"
    /\ peer \notin connected
    /\ connected' = connected \cup {peer}
    /\ app_status' = StatusOnConnection(app_status)
    /\ UNCHANGED <<is_audio_muted, is_video_muted, camera, remote_frames,
                   listen_addresses, messages, downloads, input, input_mode,
                   app_audio_receiver, p2p_audio_receiver, key_open,
                   save_tasks, typed, last_video>>
    /\ Continue([kind |-> "ConnectionEstablished", peer |-> peer], <<>>, TRUE)

\* main.rs:286-291
ConnectionClosed(peer) ==
    /\ pc = "select"
    /\ peer \in connected
    /\ connected' = connected \ {peer}
    /\ UNCHANGED <<app_status, is_audio_muted, is_video_muted, camera, remote_frames,
                   listen_addresses, messages, downloads, input, input_mode,
                   app_audio_receiver, p2p_audio_receiver, key_open,
                   save_tasks, typed, last_video>>
    /\ \E ok \in BOOLEAN :
         Terminate([kind |-> "ConnectionClosed", peer |-> peer], <<EndCallPublish(ok)>>, "ok")

\* main.rs:283-285, 292-294, 398: Dialing, IncomingConnectionError and the
\* swarm events no arm names
SwarmOther ==
    /\ pc = "select"
    /\ UNCHANGED view
    /\ UNCHANGED <<camera, app_audio_receiver, p2p_audio_receiver, connected, key_open,
                   save_tasks, typed, last_video>>
    /\ Continue([kind |-> "swarm_other"], <<>>, FALSE)

\* main.rs:393-397
NewListenAddr(address) ==
    /\ pc = "select"
    /\ Len(listen_addresses) < MaxAddrs
    /\ listen_addresses' = Append(listen_addresses, WithP2p(address))
    /\ UNCHANGED <<app_status, is_audio_muted, is_video_muted, camera, remote_frames,
                   messages, downloads, input, input_mode,
                   app_audio_receiver, p2p_audio_receiver, connected, key_open,
                   save_tasks, typed, last_video>>
    /\ Continue([kind |-> "NewListenAddr", address |-> address], <<>>, TRUE)

\* main.rs:299-306
VideoMessage(json, source) ==
    IF FromSliceOk(FrameDataFields, json) /\ NotOwn(json.fields.peer_id)
    THEN /\ remote_frames' = UpdateFrame(remote_frames, json.fields)
         /\ last_video' = [p \in DOMAIN last_video \cup {json.fields.peer_id} |->
                             IF p = json.fields.peer_id
                             THEN [envelope |-> json.fields, replaced |-> p \in DOMAIN last_video]
                             ELSE last_video[p]]
         /\ UNCHANGED <<app_status, is_audio_muted, is_video_muted, listen_addresses,
                        messages, downloads, input, input_mode, p2p_audio_receiver, save_tasks>>
         /\ Continue(MessageEvent(VIDEO_TOPIC, json, source), <<>>, TRUE)
    ELSE /\ UNCHANGED view
         /\ UNCHANGED <<p2p_audio_receiver, save_tasks, last_video>>
         /\ Continue(MessageEvent(VIDEO_TOPIC, json, source), <<>>, FALSE)

\* main.rs:307-314
AudioMessage(json, source) ==
    IF FromSliceOk(AudioDataFields, json) /\ NotOwn(json.fields.peer_id)
    THEN /\ Len(p2p_audio_receiver) < MaxQueue
         /\ p2p_audio_receiver' = Append(p2p_audio_receiver, json.fields.data)
         /\ UNCHANGED view
         /\ UNCHANGED <<save_tasks, last_video>>
         /\ Continue(MessageEvent(AUDIO_TOPIC, json, source), <<>>, FALSE)
    ELSE /\ UNCHANGED view
         /\ UNCHANGED <<p2p_audio_receiver, save_tasks, last_video>>
         /\ Continue(MessageEvent(AUDIO_TOPIC, json, source), <<>>, FALSE)

\* main.rs:315-328
ChatArrives(json, source) ==
    IF FromSliceOk(ChatMessageFields, json) /\ NotOwn(json.fields.peer_id)
    THEN IF ShortIdPanics(json.fields.peer_id)
         THEN /\ UNCHANGED view
              /\ UNCHANGED <<p2p_audio_receiver, save_tasks, last_video>>
              /\ Terminate(MessageEvent(CHAT_TOPIC, json, source), <<>>, "panic")
         ELSE /\ Len(messages) < MaxMessages
              /\ messages' = Append(messages,
                                FormatChat(ShortId(json.fields.peer_id), json.fields.message))
              /\ UNCHANGED <<app_status, is_audio_muted, is_video_muted, remote_frames,
                             listen_addresses, downloads, input, input_mode,
                             p2p_audio_receiver, save_tasks, last_video>>
              /\ Continue(MessageEvent(CHAT_TOPIC, json, source), <<>>, TRUE)
    ELSE /\ UNCHANGED view
         /\ UNCHANGED <<p2p_audio_receiver, save_tasks, last_video>>
         /\ Continue(MessageEvent(CHAT_TOPIC, json, source), <<>>, FALSE)

\* Mutant: the index is taken before the push.
DownloadIndexBeforePush(pushed) == Len(pushed) - 1

\* main.rs:341-345: tui_guard.downloads.len() - 1 after the push, the position
\* of the new entry (positions count from 1 here, from 0 in the code)
DownloadIndex(pushed) == Len(pushed)

\* main.rs:329-382
FileArrives(json, source) ==
    IF FromSliceOk(FileMessageFields, json) /\ NotOwn(json.fields.peer_id)
    THEN LET download == [file_name |-> json.fields.file_name,
                          peer_id |-> json.fields.peer_id,
                          state |-> Downloading]
             download_index == DownloadIndex(Append(downloads, download))
         IN  /\ Len(downloads) < MaxDownloads
             /\ downloads' = Append(downloads, download)
             /\ save_tasks' = save_tasks \cup
                                {[index |-> download_index,
                                  file_name |-> json.fields.file_name,
                                  content |-> json.fields.content]}
             /\ UNCHANGED <<app_status, is_audio_muted, is_video_muted, remote_frames,
                            listen_addresses, messages, input, input_mode,
                            p2p_audio_receiver, last_video>>
             /\ Continue(MessageEvent(FILE_TOPIC, json, source), <<>>, TRUE)
    ELSE /\ UNCHANGED view
         /\ UNCHANGED <<p2p_audio_receiver, save_tasks, last_video>>
         /\ Continue(MessageEvent(FILE_TOPIC, json, source), <<>>, FALSE)

\* Mutant: the local peer's own EndCall is skipped, as on the other topics.
ControlMessageFromOthers(json, source) ==
    /\ UNCHANGED view
    /\ UNCHANGED <<p2p_audio_receiver, save_tasks, last_video>>
    /\ IF IsEndCall(json) /\ source # local_peer_id_str
       THEN Terminate(MessageEvent(CONTROL_TOPIC, json, source), <<>>, "ok")
       ELSE Continue(MessageEvent(CONTROL_TOPIC, json, source), <<>>, FALSE)

\* main.rs:383-391
ControlMessage(json, source) ==
    /\ UNCHANGED view
    /\ UNCHANGED <<p2p_audio_receiver, save_tasks, last_video>>
    /\ IF IsEndCall(json)
       THEN Terminate(MessageEvent(CONTROL_TOPIC, json, source), <<>>, "ok")
       ELSE Continue(MessageEvent(CONTROL_TOPIC, json, source), <<>>, FALSE)

\* main.rs:295-392: dispatch on the topic string
Message(topic, json, source) ==
    /\ pc = "select"
    /\ UNCHANGED <<camera, app_audio_receiver, connected, key_open, typed>>
    /\ CASE topic = VIDEO_TOPIC -> VideoMessage(json, source)
         [] topic = AUDIO_TOPIC -> AudioMessage(json, source)
         [] topic = CHAT_TOPIC -> ChatArrives(json, source)
         [] topic = FILE_TOPIC -> FileArrives(json, source)
         [] topic = CONTROL_TOPIC -> ControlMessage(json, source)

\* The messages the environment delivers under each feed.
Delivered(f) ==
    CASE f = "typing" -> {}
      [] f = "video" -> {VIDEO_TOPIC} \X VideoEnvelopes
      [] f = "audio" -> {}
      [] f = "playback" -> {AUDIO_TOPIC} \X AudioEnvelopes
      [] f = "chat" -> {CHAT_TOPIC} \X ChatEnvelopes
      [] f = "file" -> {FILE_TOPIC} \X FileEnvelopes
      [] f = "control" -> (Topics \X {EndCallJson}) \cup (Topics \X ForeignPayloads)

\* The peers that connect under each feed.
\* The peers a message arrives from: message.source is read by no branch, so
\* one sender stands for all, except for EndCall, which arrives from every peer.
Senders(json) == IF json = EndCallJson THEN EnvelopePeerIds ELSE {RemoteLong}

Dialers(f) == IF f = "control" THEN RemotePeerIds ELSE {RemoteLong}

Swarm ==
    \/ \E peer \in Dialers(feed) : ConnectionEstablished(peer)
    \/ \E peer \in RemotePeerIds : ConnectionClosed(peer)
    \/ feed = "control" /\ SwarmOther
    \/ feed = "control" /\ \E address \in ListenAddrs : NewListenAddr(address)
    \/ \E m \in Delivered(feed) : \E source \in Senders(m[2]) : Message(m[1], m[2], source)

----------------------------------------------------------------------------
(* The download status branch: main.rs:401-408, fed by the save task
   spawned at main.rs:348-378 *)

\* main.rs:359-374: the state the save task reports
SaveResults(file_name) == {Completed(SavePath(file_name)), Failed}

\* Mutant: the state goes to the newest entry, whatever index was reported.
UpdateDownloadLast(list, index, new_state) ==
    [list EXCEPT ![Len(list)].state = new_state]

\* main.rs:404-405: d.state = new_state on downloads.get_mut(download_index)
UpdateDownload(list, index, new_state) ==
    [list EXCEPT ![index].state = new_state]

\* Mutant: a save task reports again and again.
DownloadStatusRepeats ==
    /\ pc = "select"
    /\ \E task \in save_tasks : \E new_state \in SaveResults(task.file_name) :
         /\ save_tasks' = save_tasks
         /\ IF task.index \in DOMAIN downloads
            THEN /\ downloads' = UpdateDownload(downloads, task.index, new_state)
                 /\ UNCHANGED <<app_status, is_audio_muted, is_video_muted, remote_frames,
                                listen_addresses, messages, input, input_mode>>
                 /\ UNCHANGED <<camera, app_audio_receiver, p2p_audio_receiver, connected,
                                key_open, typed, last_video>>
                 /\ Continue([kind |-> "download_status", index |-> task.index,
                              state |-> new_state], <<>>, TRUE)
            ELSE /\ UNCHANGED view
                 /\ UNCHANGED <<camera, app_audio_receiver, p2p_audio_receiver, connected,
                                key_open, typed, last_video>>
                 /\ Continue([kind |-> "download_status", index |-> task.index,
                              state |-> new_state], <<>>, FALSE)

\* main.rs:401-408; the save task sends its one report and ends (main.rs:375)
DownloadStatus ==
    /\ pc = "select"
    /\ \E task \in save_tasks : \E new_state \in SaveResults(task.file_name) :
         /\ save_tasks' = save_tasks \ {task}
         /\ IF task.index \in DOMAIN downloads
            THEN /\ downloads' = UpdateDownload(downloads, task.index, new_state)
                 /\ UNCHANGED <<app_status, is_audio_muted, is_video_muted, remote_frames,
                                listen_addresses, messages, input, input_mode>>
                 /\ UNCHANGED <<camera, app_audio_receiver, p2p_audio_receiver, connected,
                                key_open, typed, last_video>>
                 /\ Continue([kind |-> "download_status", index |-> task.index,
                              state |-> new_state], <<>>, TRUE)
            ELSE /\ UNCHANGED view
                 /\ UNCHANGED <<camera, app_audio_receiver, p2p_audio_receiver, connected,
                                key_open, typed, last_video>>
                 /\ Continue([kind |-> "download_status", index |-> task.index,
                              state |-> new_state], <<>>, FALSE)

Next ==
    \/ PaintBlock
    \/ Tick
    \/ Key
    \/ Swarm
    \/ DownloadStatus
    \/ feed = "audio" /\ Capture
    \/ feed = "playback" /\ Playback
    \/ feed = "control" /\ ReaderStops

Spec == Init /\ [][Next]_vars

\* The loop goes on from the paint block to select!; select! picks among its
\* ready branches at random, so a branch that is ready again and again is
\* taken: here the branch of a reported download status,
FairSpec ==
    /\ Spec
    /\ WF_vars(PaintBlock)
    /\ SF_vars(DownloadStatus)

\* and here the branch of the closed key channel.
FairInputSpec ==
    /\ Spec
    /\ WF_vars(PaintBlock)
    /\ SF_vars(KeyClosed)

----------------------------------------------------------------------------
(* Properties *)

\* The step is one select! branch run to its end.
BranchStep == pc = "select" /\ pc' # "select"

\* The envelope of the message serviced last is the local peer's own.
OwnEnvelope(ev) ==
    /\ ev.kind = "Message"
    /\ ev.topic \in {VIDEO_TOPIC, AUDIO_TOPIC, CHAT_TOPIC, FILE_TOPIC}
    /\ ev.json.kind = "object"
    /\ "peer_id" \in DOMAIN ev.json.fields
    /\ ev.json.fields.peer_id = local_peer_id_str

\* C1: servicing a video, audio, chat or file message whose embedded peer_id
\* is the local peer id leaves remote_frames, messages, downloads and the
\* inbound audio queue unchanged, and the local peer id is never a key of
\* remote_frames.
C1_SelfEchoSuppressed ==
    /\ [](local_peer_id_str \notin DOMAIN remote_frames)
    /\ [][BranchStep /\ OwnEnvelope(last')
            => UNCHANGED <<remote_frames, messages, downloads, p2p_audio_receiver>>]_vars

\* An own video envelope was serviced while a remote frame was on display.
C1_Witness ==
    /\ OwnEnvelope(last)
    /\ last.topic = VIDEO_TOPIC
    /\ pc = "paint"
    /\ DOMAIN remote_frames = {RemoteLong}

\* The last 6 characters of a peer id (all of it when it is shorter).
Last6(peer_id) ==
    IF Len(peer_id) <= 6 THEN peer_id ELSE SubSeq(peer_id, Len(peer_id) - 5, Len(peer_id))

RemoteChatServiced ==
    /\ last.kind = "Message"
    /\ last.topic = CHAT_TOPIC
    /\ FromSliceOk(ChatMessageFields, last.json)
    /\ last.json.fields.peer_id # local_peer_id_str

\* C2: a well-formed chat envelope from a non-local peer, whatever the
\* length of its peer_id, appends "<last 6 of peer_id>: <message>" to the
\* chat lines and the loop keeps running.
C2_ChatFromAnyPeer ==
    RemoteChatServiced =>
        /\ outcome = "running"
        /\ messages # <<>>
        /\ messages[Len(messages)]
             = FormatChat(Last6(last.json.fields.peer_id), last.json.fields.message)

\* C3 as stated: in every call state a view-model change since the last
\* paint implies dirty.
C3_DirtyInEveryState == stale => tui_dirty

\* C3, amended: outside InCall a view-model change since the last paint
\* implies dirty; dirty is cleared only by the paint block, which has
\* painted the status screen unless the call state is InCall.
C3_DirtyOutsideCall ==
    /\ [](app_status # InCall /\ stale => tui_dirty)
    /\ [][tui_dirty /\ ~tui_dirty'
            => /\ pc = "paint"
               /\ app_status # InCall => paints' = paints + 1 /\ ~stale']_vars

\* A mutation after the first paint has left the status screen stale.
C3_Witness ==
    /\ app_status # InCall
    /\ paints >= 1
    /\ stale /\ tui_dirty
    /\ pc = "paint"

\* C4: no publish error becomes the error result of the loop.
C4_PublishErrorNeverFatal == outcome # "publish_error"

QuitPressed(ev) == ev.kind = "key" /\ ev.code = "Char" /\ ev.c = "q" /\ ~ev.input_mode

\* C5: q in normal mode ends the loop in that iteration, with exactly one
\* publish of EndCall on the control topic when the call state is InCall or
\* Joining and none when it is WaitingForPeers; nothing is published after.
C5_QuitPublishesOnce ==
    /\ [][BranchStep /\ QuitPressed(last')
            => /\ pc' = "done"
               /\ IF app_status \in {InCall, Joining}
                  THEN /\ Len(sent') = 1
                       /\ sent'[1].topic = CONTROL_TOPIC
                       /\ sent'[1].data = EndCallJson
                  ELSE sent' = <<>>]_vars
    /\ [][pc = "done" => UNCHANGED <<sent, pc>>]_vars

C5_Witness ==
    /\ QuitPressed(last)
    /\ pc = "done"
    /\ app_status = Joining
    /\ Len(sent) = 1

\* C6: a ConnectionClosed that leaves another connection open does not end
\* the loop.
C6_OnlyLastConnectionLossEnds ==
    last.kind = "ConnectionClosed" /\ connected # {} => pc # "done"

InCallTick == last.kind = "tick" /\ last.frame # "-"

\* C7: the video envelope a tick publishes carries the mute flags held at
\* that tick, and while local video is muted its frame is the "no camera"
\* frame.
C7_MutePropagation ==
    InCallTick =>
        /\ sent # <<>>
        /\ sent[1].topic = VIDEO_TOPIC
        /\ sent[1].data.fields.peer_id = local_peer_id_str
        /\ sent[1].data.fields.is_audio_muted = is_audio_muted
        /\ sent[1].data.fields.is_video_muted = is_video_muted
        /\ is_video_muted => sent[1].data.fields.frame = NoCameraFrame

\* A tick after v, with a working camera, published the "no camera" frame.
C7_Witness ==
    /\ InCallTick
    /\ is_video_muted
    /\ camera
    /\ sent[1].data.fields.frame = NoCameraFrame
    /\ sent[1].data.fields.is_video_muted

\* C8: remote_frames holds, for each peer id, the frame and the mute flags
\* of the last consumed envelope with that peer_id.
C8_LastWriterWins ==
    /\ DOMAIN remote_frames = DOMAIN last_video
    /\ \A p \in DOMAIN remote_frames :
         remote_frames[p] = <<last_video[p].envelope.frame,
                              last_video[p].envelope.is_audio_muted,
                              last_video[p].envelope.is_video_muted>>

\* Two peers have a slot, and one slot holds an envelope that replaced an
\* earlier one of the same peer.
C8_Witness ==
    /\ DOMAIN remote_frames = RemotePeerIds
    /\ last_video[RemoteLong].replaced
    /\ remote_frames[RemoteLong] = <<"F2", TRUE, FALSE>>
    /\ remote_frames[RemoteShort] = <<"F1", FALSE, FALSE>>

EnterPressed(ev) == ev.kind = "key" /\ ev.code = "Enter" /\ ev.input_mode

\* C9: after i and the characters of a text t, Enter makes exactly one
\* publish on the chat topic with message t and the local peer id, appends
\* "You: <t>" to the chat lines, empties the buffer and leaves input mode,
\* whether or not the publish succeeds.
C9_ChatRoundTrip ==
    [][BranchStep /\ EnterPressed(last') /\ typed.clean
         => /\ Len(sent') = 1
            /\ sent'[1].topic = CHAT_TOPIC
            /\ sent'[1].data = ChatMessage(local_peer_id_str, typed.text)
            /\ messages' = Append(messages, FormatYou(typed.text))
            /\ input' = <<>>
            /\ ~input_mode']_vars

\* i, m, q, Enter with a failed publish.
C9_Witness ==
    /\ EnterPressed(last)
    /\ messages = <<FormatYou(<<"m", "q">>)>>
    /\ ~sent[1].ok
    /\ sent[1].data.fields.message = <<"m", "q">>
    /\ input = <<>> /\ ~input_mode

\* C10 as stated: outside InCall, with no paint pending, the repaints equal
\* the dirty-setting mutations.
C10_PaintsEqualMutations ==
    app_status # InCall /\ pc = "select" => paints = dirty_sets

\* C10, amended: the status screen is painted once at the start (dirty
\* starts true) and once after each dirty-setting mutation that leaves the
\* call state outside InCall; a paint happens only when dirty is set.
C10_PaintsFollowDirty ==
    /\ [](app_status # InCall /\ pc = "select" => paints = dirty_sets + 1 /\ ~tui_dirty)
    /\ [](app_status # InCall /\ pc = "paint"
            => paints + (IF tui_dirty THEN 1 ELSE 0) = dirty_sets + 1)
    /\ [][paints' # paints /\ app_status' # InCall
            => tui_dirty /\ ~tui_dirty' /\ paints' = paints + 1]_vars

C10_Witness ==
    /\ app_status = WaitingForPeers
    /\ pc = "select"
    /\ dirty_sets = 2
    /\ paints = 3

RemoteFileServiced(ev) ==
    /\ ev.kind = "Message"
    /\ ev.topic = FILE_TOPIC
    /\ FromSliceOk(FileMessageFields, ev.json)
    /\ ev.json.fields.peer_id # local_peer_id_str

StillDownloading(i) ==
    IF i \in DOMAIN downloads THEN downloads[i].state = Downloading ELSE FALSE

Saved(i) ==
    IF i \in DOMAIN downloads
    THEN downloads[i].state \in {Completed(SavePath(downloads[i].file_name)), Failed}
    ELSE FALSE

\* C11: a well-formed file envelope from a non-local peer appends exactly one
\* download entry in state Downloading, at the end of the list, and starts
\* exactly one save for that position with the envelope's name and content;
\* while the loop keeps running, an entry in state Downloading eventually
\* becomes Completed(<downloads>/<file name>) or Failed.
C11_FileDownloadCompletes ==
    /\ [][BranchStep /\ RemoteFileServiced(last')
            => /\ downloads' = Append(downloads, [file_name |-> last'.json.fields.file_name,
                                                   peer_id |-> last'.json.fields.peer_id,
                                                   state |-> Downloading])
               /\ \E task \in save_tasks' :
                    /\ task \notin save_tasks
                    /\ save_tasks' = save_tasks \cup {task}
                    /\ task = [index |-> Len(downloads'),
                               file_name |-> last'.json.fields.file_name,
                               content |-> last'.json.fields.content]]_vars
    /\ \A i \in 1..MaxDownloads :
         [](StillDownloading(i) => <>(pc = "done" \/ Saved(i)))

\* A received file was saved and its entry shows the path.
C11_Witness ==
    /\ last.kind = "download_status"
    /\ downloads # <<>>
    /\ downloads[1].state = Completed(SavePath(<<"a">>))
    /\ save_tasks = {}

EndCallReceived(ev) ==
    ev.kind = "Message" /\ ev.topic = CONTROL_TOPIC /\ ev.json = EndCallJson

\* C12: servicing a control message that deserializes to EndCall ends the
\* loop in that iteration without a publish, and nothing is published after
\* the loop has ended.
C12_EndCallTerminates ==
    /\ [][BranchStep /\ EndCallReceived(last')
            => pc' = "done" /\ outcome' = "ok" /\ sent' = <<>>]_vars
    /\ [][pc = "done" => pc' = "done" /\ sent' = sent]_vars

\* EndCall arrived during a call.
C12_Witness ==
    /\ EndCallReceived(last)
    /\ pc = "done"
    /\ app_status = InCall
    /\ connected # {}

\* C13: the loop ends only by servicing q in normal mode, a received control
\* EndCall, a ConnectionClosed, the closed input channel, or by a renderer
\* error that is propagated.
C13_OnlyListedTerminations ==
    pc = "done" =>
        \/ QuitPressed(last)
        \/ EndCallReceived(last)
        \/ last.kind = "ConnectionClosed"
        \/ last.kind = "key_closed"
        \/ outcome = "render_error"

\* C14: the call state starts as WaitingForPeers for create and Joining for
\* join; it changes only from WaitingForPeers or Joining to InCall, exactly
\* when a ConnectionEstablished is serviced, which also sets dirty; once
\* InCall it stays InCall.
C14_CallStateMachine ==
    /\ app_status = (IF args = "Create" THEN WaitingForPeers ELSE Joining)
    /\ [][app_status' # app_status
            => /\ app_status \in {WaitingForPeers, Joining}
               /\ app_status' = InCall
               /\ BranchStep
               /\ last'.kind = "ConnectionEstablished"]_vars
    /\ [][BranchStep /\ last'.kind = "ConnectionEstablished"
            => app_status' = InCall /\ tui_dirty']_vars
    /\ [][app_status = InCall => app_status' = InCall]_vars

\* A joiner's dial was answered.
C14_Witness ==
    /\ args = "Join"
    /\ last.kind = "ConnectionEstablished"
    /\ app_status = InCall
    /\ tui_dirty
    /\ pc = "paint"

OnAudioTopic(p) == p.topic = AUDIO_TOPIC
AudioPublishes(pubs) == SelectSeq(pubs, OnAudioTopic)

\* C15: a step taken while local audio is muted publishes nothing on the
\* audio topic, and only an InCall tick ever does; an InCall tick with audio
\* not muted publishes exactly the oldest captured chunk and removes it from
\* the capture queue, and with an empty capture queue it publishes no audio
\* and completes.
C15_AudioOnlyWhenUnmuted ==
    /\ [][BranchStep /\ (is_audio_muted \/ ~InCallTick')
            => AudioPublishes(sent') = <<>> /\ UNCHANGED app_audio_receiver]_vars
    /\ [][BranchStep /\ InCallTick' /\ ~is_audio_muted
            => IF app_audio_receiver = <<>>
               THEN AudioPublishes(sent') = <<>> /\ app_audio_receiver' = <<>>
               ELSE /\ Len(AudioPublishes(sent')) = 1
                    /\ AudioPublishes(sent')[1].data
                         = AudioData(local_peer_id_str, Head(app_audio_receiver))
                    /\ app_audio_receiver' = Tail(app_audio_receiver)]_vars

\* Two chunks were captured; the tick published the older one and left the
\* newer one queued.
C15_Witness ==
    /\ InCallTick
    /\ ~is_audio_muted
    /\ Len(sent) = 2
    /\ sent[2].topic = AUDIO_TOPIC
    /\ sent[2].data.fields.data = <<2, 3>>
    /\ app_audio_receiver = <<<<1>>>>

\* C16: the keys of remote_frames are peers a ConnectionEstablished was
\* serviced for, and a key once present is never removed.
C16_FramesOnlyFromConnectedPeers ==
    /\ [](DOMAIN remote_frames \subseteq established)
    /\ [][DOMAIN remote_frames \subseteq DOMAIN remote_frames']_vars

\* The payload is the serialization of the envelope type of the topic.
EnvelopeOfTopic(topic, json) ==
    CASE topic = VIDEO_TOPIC -> json \in VideoEnvelopes
      [] topic = AUDIO_TOPIC -> json \in AudioEnvelopes
      [] topic = CHAT_TOPIC -> json \in ChatEnvelopes
      [] topic = FILE_TOPIC -> json \in FileEnvelopes
      [] topic = CONTROL_TOPIC -> json = EndCallJson

\* C17: a message whose payload is not the envelope type of the topic it
\* arrived on, be it no JSON, another JSON value or the envelope of another
\* topic, is dropped: the view-model, the queues, the started saves and
\* dirty are unchanged, nothing is published and the loop goes on.
C17_MalformedDropped ==
    [][BranchStep /\ last'.kind = "Message" /\ ~EnvelopeOfTopic(last'.topic, last'.json)
         => /\ UNCHANGED <<view, tui_dirty, app_audio_receiver, p2p_audio_receiver,
                           save_tasks, connected>>
            /\ sent' = <<>>
            /\ pc' = "paint"
            /\ outcome' = "running"]_vars

\* A chat envelope arrived on the video topic and no frame was stored.
C17_Witness ==
    /\ last.kind = "Message"
    /\ last.topic = VIDEO_TOPIC
    /\ last.json \in ChatEnvelopes
    /\ remote_frames = <<>>
    /\ pc = "paint"
    /\ outcome = "running"

VideoPublishes(pubs) == SelectSeq(pubs, LAMBDA p : p.topic = VIDEO_TOPIC)

\* C18: an InCall tick makes exactly one publish on the video topic, first
\* among its publishes and whatever the mute flags and dirty are, and calls
\* the call-screen renderer exactly once; a tick in another call state
\* publishes nothing and paints nothing.
C18_TickPublishesVideo ==
    [][BranchStep /\ last'.kind = "tick"
         => IF app_status = InCall
            THEN /\ Len(VideoPublishes(sent')) = 1
                 /\ sent'[1].topic = VIDEO_TOPIC
                 /\ last'.draw \in {"ok", "err"}
                 /\ last'.draw = "ok" <=> pc' = "paint"
                 /\ last'.draw = "ok" => ~stale'
            ELSE sent' = <<>> /\ last'.draw = "-" /\ stale' = stale]_vars

\* A tick taken in a call with video and audio muted and dirty already
\* cleared published one video envelope and painted the call screen.
C18_Witness ==
    /\ InCallTick
    /\ is_video_muted /\ is_audio_muted
    /\ ~tui_dirty
    /\ Len(sent) = 1
    /\ sent[1].topic = VIDEO_TOPIC
    /\ last.draw = "ok"

\* C19: once the input reader has stopped, the branch of the closed key
\* channel is ready at every select!, in any call state, and the loop
\* eventually ends.
C19_ReaderStopTerminates ==
    /\ [](~key_open /\ pc = "select" => ENABLED KeyClosed)
    /\ [](~key_open => <>(pc = "done"))

\* The reader stopped while the joiner was still dialing, and the loop ended
\* through the closed channel.
C19_Witness ==
    /\ ~key_open
    /\ pc = "done"
    /\ last.kind = "key_closed"
    /\ app_status = Joining
    /\ outcome = "ok"

\* A step of the playback callback: the only step that writes the output
\* buffer or takes from the inbound queue without moving the loop.
PlaybackStep ==
    /\ pc' = pc
    /\ out_buffer' # out_buffer \/ Len(p2p_audio_receiver') < Len(p2p_audio_receiver)

\* C20: a playback callback removes at most one chunk from the inbound
\* queue; with an empty queue the whole buffer is silence; with a chunk its
\* first min(buffer length, chunk length) samples are copied in order and
\* every buffer position beyond the chunk is silence.
C20_PlaybackPadsWithSilence ==
    [][PlaybackStep
         => IF p2p_audio_receiver = <<>>
            THEN /\ p2p_audio_receiver' = <<>>
                 /\ \A i \in DOMAIN out_buffer' : out_buffer'[i] = Silence
            ELSE /\ p2p_audio_receiver' = Tail(p2p_audio_receiver)
                 /\ \A i \in DOMAIN out_buffer' :
                      out_buffer'[i] = IF i <= Len(Head(p2p_audio_receiver))
                                       THEN Head(p2p_audio_receiver)[i]
                                       ELSE Silence]_vars

\* C21: servicing NewListenAddr appends exactly one listen address, the
\* reported address followed by /p2p/<local peer id> as its last component,
\* and sets dirty; while WaitingForPeers the next event is serviced only
\* after the waiting screen was painted with that address.
C21_ListenAddrShown ==
    /\ [][BranchStep /\ last'.kind = "NewListenAddr"
            => /\ listen_addresses'
                    = Append(listen_addresses, <<last'.address, <<"p2p", local_peer_id_str>>>>)
               /\ tui_dirty']_vars
    /\ [](last.kind = "NewListenAddr" /\ app_status = WaitingForPeers /\ pc = "select"
            => ~stale /\ ~tui_dirty /\ paints >= 2 /\ listen_addresses # <<>>)

\* The creator's listen address was reported and the waiting screen repainted.
C21_Witness ==
    /\ last.kind = "NewListenAddr"
    /\ args = "Create"
    /\ app_status = WaitingForPeers
    /\ pc = "select"
    /\ listen_addresses = <<<<"/ip4/127.0.0.1/tcp/4242", <<"p2p", local_peer_id_str>>>>>>
    /\ ~stale

\* C22: a tick serviced while WaitingForPeers or Joining publishes nothing,
\* takes nothing from the captured-audio queue, paints nothing and leaves the
\* session state and dirty unchanged.
C22_TickOutsideCallNoOp ==
    [][BranchStep /\ last'.kind = "tick" /\ app_status \in {WaitingForPeers, Joining}
         => /\ sent' = <<>>
            /\ last'.draw = "-"
            /\ pc' = "paint"
            /\ UNCHANGED <<view, tui_dirty, paints, stale, app_audio_receiver,
                           p2p_audio_receiver, connected, save_tasks, camera, key_open,
                           out_buffer, outcome>>]_vars

\* A tick went by while the joiner was dialing, with a captured chunk queued
\* and the microphone open.
C22_Witness ==
    /\ last.kind = "tick"
    /\ last.draw = "-"
    /\ app_status = Joining
    /\ ~is_audio_muted
    /\ Len(app_audio_receiver) = 2
    /\ sent = <<>>

\* C23: a download status (i, s) with i in range sets the state of entry i
\* to s and sets dirty, and leaves the other entries, the length of the list
\* and every file_name and peer_id as they were, in whatever order the
\* statuses of the running saves arrive; a status out of range changes
\* neither the list nor dirty (and none is ever reported); the list only
\* grows, by appending.
C23_StatusUpdatesOneEntry ==
    /\ [][BranchStep /\ last'.kind = "download_status"
            => IF last'.index \in DOMAIN downloads
               THEN /\ Len(downloads') = Len(downloads)
                    /\ \A j \in DOMAIN downloads :
                         downloads'[j] = IF j = last'.index
                                         THEN [file_name |-> downloads[j].file_name,
                                               peer_id |-> downloads[j].peer_id,
                                               state |-> last'.state]
                                         ELSE downloads[j]
                    /\ tui_dirty'
               ELSE UNCHANGED <<downloads, tui_dirty>>]_vars
    /\ [][/\ Len(downloads') >= Len(downloads)
          /\ \A j \in DOMAIN downloads :
               /\ downloads'[j].file_name = downloads[j].file_name
               /\ downloads'[j].peer_id = downloads[j].peer_id]_vars
    /\ [](\A task \in save_tasks : task.index \in DOMAIN downloads)

\* Two saves were running and the second one reported first.
C23_Witness ==
    /\ last.kind = "download_status"
    /\ last.index = 2
    /\ Len(downloads) = 2
    /\ downloads[1].state = Downloading
    /\ downloads[2].state = Failed
    /\ tui_dirty

\* What a key of input mode leaves alone besides the buffer.
InputKeyLeaves ==
    UNCHANGED <<app_status, is_audio_muted, is_video_muted, remote_frames, listen_addresses,
                messages, downloads, connected, key_open, save_tasks, outcome>>

\* C24: in input mode a character key, q and m included, appends the
\* character to the input buffer and does nothing else; Backspace removes
\* the last character and does nothing on an empty buffer; Esc empties the
\* buffer and leaves input mode; none of them publishes or ends the loop
\* and each sets dirty.
C24_InputModeKeys ==
    [][BranchStep /\ last'.kind = "key" /\ last'.input_mode
                  /\ last'.code \in {"Char", "Backspace", "Esc"}
         => /\ CASE last'.code = "Char"
                      -> input' = Append(input, last'.c) /\ input_mode'
                 [] last'.code = "Backspace"
                      -> /\ input' = IF input = <<>> THEN <<>>
                                     ELSE SubSeq(input, 1, Len(input) - 1)
                         /\ input_mode'
                 [] last'.code = "Esc"
                      -> input' = <<>> /\ ~input_mode'
            /\ InputKeyLeaves
            /\ sent' = <<>>
            /\ tui_dirty'
            /\ pc' = "paint"]_vars

\* q was typed into the buffer after m, and the call went on unmuted.
C24_Witness ==
    /\ last.kind = "key" /\ last.input_mode
    /\ last.code = "Char" /\ last.c = "q"
    /\ input = <<"m", "q">>
    /\ input_mode
    /\ ~is_audio_muted
    /\ pc = "paint"
    /\ outcome = "running"

FPressed(ev) == ev.kind = "key" /\ ev.code = "Char" /\ ev.c = "f" /\ ~ev.input_mode

\* C25: f in normal mode appends "You sent a file: <name>" to the chat lines
\* and sets dirty exactly when a file was picked and read and its publish on
\* the file topic succeeded; when the dialog is cancelled, the read fails or
\* the publish fails, the chat lines and dirty are unchanged; in every case
\* the loop goes on.
C25_SentFileShownOnSuccess ==
    [][BranchStep /\ FPressed(last')
         => /\ pc' = "paint" /\ outcome' = "running"
            /\ Len(sent') <= 1
            /\ IF sent' # <<>> /\ sent'[1].ok
               THEN /\ sent'[1].topic = FILE_TOPIC
                    /\ messages' = Append(messages,
                                      FormatSentFile(sent'[1].data.fields.file_name))
                    /\ tui_dirty'
               ELSE UNCHANGED <<messages, tui_dirty>>
            /\ UNCHANGED <<app_status, is_audio_muted, is_video_muted, remote_frames,
                           listen_addresses, downloads, input, input_mode>>]_vars

\* A file was picked and read, its publish failed, and nothing was shown.
C25_Witness ==
    /\ FPressed(last)
    /\ Len(sent) = 1
    /\ sent[1].topic = FILE_TOPIC
    /\ ~sent[1].ok
    /\ messages = <<>>
    /\ ~tui_dirty
    /\ pc = "paint"

\* C26: a well-formed chat envelope from another peer that is serviced while
\* WaitingForPeers or Joining is appended to the chat lines as it is in a
\* call, and the chat lines only grow by appending, so the line is still
\* there, in arrival order, once the call state is InCall.
C26_ChatBeforeConnection ==
    /\ [][BranchStep /\ RemoteChatServiced' /\ app_status \in {WaitingForPeers, Joining}
            => /\ messages' = Append(messages,
                                 FormatChat(Last6(last'.json.fields.peer_id),
                                            last'.json.fields.message))
               /\ pc' = "paint"]_vars
    /\ [][\/ messages' = messages
          \/ /\ messages' # <<>>
             /\ SubSeq(messages', 1, Len(messages') - 1) = messages]_vars

----------------------------------------------------------------------------
(* video.rs: to_ascii *)

ASCII_CHARS == <<" ", ".", ":", "-", "=", "+", "*", "#", "%", "@">>

\* `pixel[0] as usize` of a Luma<u8> pixel.
MaxIntensity == 255
Intensities == 0 .. MaxIntensity

CharIndexBy256(intensity) == (intensity * (Len(ASCII_CHARS) - 1)) \div (MaxIntensity + 1)
CharIndex(intensity) == (intensity * (Len(ASCII_CHARS) - 1)) \div MaxIntensity

\* The inner loop over x and the push of '\n' that closes the row.
AsciiRow(row) == [x \in 1 .. Len(row) |-> ASCII_CHARS[CharIndex(row[x]) + 1]] \o <<"\n">>

\* The outer loop over y: rows are appended to ascii_art top to bottom.
RECURSIVE AsciiRows(_, _)
AsciiRows(gray_image, y) ==
    IF y > Len(gray_image) THEN <<>>
    ELSE AsciiRow(gray_image[y]) \o AsciiRows(gray_image, y + 1)

to_ascii(gray_image) == AsciiRows(gray_image, 1)

\* The grey images the function is run on: every one-pixel image, and the
\* images of up to MaxSide x MaxSide pixels over a few intensities.
MaxSide == 2
Shades == {0, MaxIntensity}
GrayImages ==
    {<<<<v>>>> : v \in Intensities}
        \cup UNION {[1 .. h -> [1 .. w -> Shades]] : w \in 1 .. MaxSide, h \in 1 .. MaxSide}

Height(gray_image) == Len(gray_image)
Width(gray_image) == Len(gray_image[1])

AsciiInit ==
    /\ Init
    /\ feed = "video"
    /\ args = "Create"
    /\ camera

ToAsciiCall ==
    /\ ascii_art = <<>>
    /\ \E gray_image \in GrayImages :
          /\ image' = gray_image
          /\ ascii_art' = to_ascii(gray_image)
    /\ UNCHANGED <<pc, outcome, app_status, tui_dirty, is_audio_muted, is_video_muted,
                   camera, remote_frames, listen_addresses, messages, downloads, input,
                   input_mode, app_audio_receiver, p2p_audio_receiver, connected,
                   key_open, save_tasks, args, out_buffer, feed, last, sent, stale,
                   typed, last_video, paints, dirty_sets, established>>

AsciiSpec == AsciiInit /\ [][ToAsciiCall]_vars

\* C27: the character pushed for a pixel of intensity v is ASCII_CHARS[k] (counted
\* from 0) with k = v * (N - 1) / 255 in integer division, N = 10; k lies in
\* 0 .. N-1, does not decrease when v grows, is 0 for v = 0 and is N-1 only for
\* v = 255; and the String returned for an image of `height` rows of `width`
\* pixels is `height` rows of `width` ramp characters, each closed by a newline.
C27_AsciiRamp ==
    /\ Len(ASCII_CHARS) = 10
    /\ \A v \in Intensities :
          /\ CharIndex(v) \in 0 .. 9
          /\ v > 0 => CharIndex(v - 1) <= CharIndex(v)
          /\ v = 0 => CharIndex(v) = 0
          /\ CharIndex(v) = 9 => v = 255
    /\ ascii_art # <<>> =>
          /\ Len(ascii_art) = Height(image) * (Width(image) + 1)
          /\ \A y \in 1 .. Height(image) :
                /\ ascii_art[y * (Width(image) + 1)] = "\n"
                /\ \A x \in 1 .. Width(image) :
                      ascii_art[(y - 1) * (Width(image) + 1) + x]
                          = ASCII_CHARS[(image[y][x] * 9) \div 255 + 1]

C27_Witness ==
    /\ image = <<<<0, 255>>, <<255, 255>>>>
    /\ ascii_art = <<" ", "@", "\n", "@", "@", "\n">>

\* C28: whenever input_mode is false the input buffer is empty: both start so
\* (Tui::new), i leaves the buffer alone, only input-mode keys write it, and
\* Enter and Esc empty it as they leave input mode.
C28_InputEmptyOutsideInputMode ==
    ~input_mode => input = <<>>

\* Enter sent the typed text "mq" and left input mode with an empty buffer.
C28_Witness ==
    /\ EnterPressed(last)
    /\ messages = <<FormatYou(<<"m", "q">>)>>
    /\ ~input_mode
    /\ input = <<>>

\* C29: a download entry gets at most one status report: its state changes at
\* most once, from Downloading to Completed or Failed, and never changes again
\* (no report for the entry is outstanding after the change); a report is
\* serviced only for an entry that is still Downloading; and every delivery of
\* a file envelope, a repeated one included, gets an entry and a report of its
\* own.
C29_OneReportPerDownload ==
    /\ \A j \in DOMAIN downloads :
         /\ Cardinality({task \in save_tasks : task.index = j}) <= 1
         /\ downloads[j].state # Downloading => \A task \in save_tasks : task.index # j
    /\ [][\A j \in DOMAIN downloads :
            downloads'[j].state # downloads[j].state
                => /\ downloads[j].state = Downloading
                   /\ downloads'[j].state \in SaveResults(downloads[j].file_name)
                   /\ last'.kind = "download_status" /\ last'.index = j]_vars
    /\ [][BranchStep /\ last'.kind = "download_status"
            => /\ last'.index \in DOMAIN downloads
               /\ downloads[last'.index].state = Downloading]_vars

\* The same file envelope was delivered twice: two entries, each reported once.
C29_Witness ==
    /\ Len(downloads) = 2
    /\ downloads[1].file_name = downloads[2].file_name
    /\ downloads[1].peer_id = downloads[2].peer_id
    /\ downloads[1].state = Completed(SavePath(downloads[1].file_name))
    /\ downloads[2].state = Failed
    /\ save_tasks = {}

\* C30: the capture queue changes only by a captured chunk joining its end or
\* by a tick serviced InCall with audio unmuted taking its oldest chunk, one
\* chunk per tick, which is the chunk that tick publishes; so while the peer is
\* muted or not in a call every queued chunk stays, the queue only grows, and
\* the first chunks published afterwards are the oldest ones.
C30_CaptureQueueFifo ==
    /\ [][app_audio_receiver' # app_audio_receiver
            => \/ \E chunk \in Chunks : app_audio_receiver' = Append(app_audio_receiver, chunk)
               \/ /\ BranchStep /\ InCallTick'
                  /\ app_status = InCall /\ ~is_audio_muted
                  /\ app_audio_receiver # <<>>
                  /\ app_audio_receiver' = Tail(app_audio_receiver)
                  /\ Len(AudioPublishes(sent')) = 1
                  /\ AudioPublishes(sent')[1].data.fields.data = Head(app_audio_receiver)]_vars
    /\ [][is_audio_muted \/ app_status # InCall
            => IsPrefix(app_audio_receiver, app_audio_receiver')]_vars

\* Two chunks captured before the call are still queued, in order, after a tick
\* was serviced while waiting for peers.
C30_Witness ==
    /\ app_status = WaitingForPeers
    /\ last.kind = "tick"
    /\ pc = "select"
    /\ app_audio_receiver = <<<<2, 3>>, <<1>>>>

\* C31: the control branch does not look at the sender: in every call state,
\* WaitingForPeers and Joining included, an EndCall on the control topic can be
\* serviced from any peer, the local peer included, and servicing it ends the
\* loop with Ok in that iteration.
C31_EndCallFromAnyPeer ==
    /\ [](pc = "select" /\ feed = "control"
            => \A source \in EnvelopePeerIds :
                 ENABLED Message(CONTROL_TOPIC, EndCallJson, source))
    /\ [][BranchStep /\ EndCallReceived(last')
            => /\ last'.source \in EnvelopePeerIds
               /\ app_status \in {WaitingForPeers, Joining, InCall}
               /\ pc' = "done" /\ outcome' = "ok"
               /\ UNCHANGED app_status]_vars

\* A copy of the local peer's own EndCall ended the loop while waiting for peers.
C31_Witness ==
    /\ EndCallReceived(last)
    /\ last.source = local_peer_id_str
    /\ app_status = WaitingForPeers
    /\ pc = "done"
    /\ outcome = "ok"

====
